---- MODULE Spec2Model ----
(***************************************************************************)
(* Model of the image generation client: the App controller (src/App.tsx)  *)
(* and the request / response glue (src/services/geminiService.ts).        *)
(*                                                                         *)
(* JavaScript strings are modelled as sequences of one-character strings,   *)
(* so that trim, split, includes and template concatenation are computed    *)
(* the way the code computes them.                                          *)
(***************************************************************************)
EXTENDS Integers, Sequences, FiniteSets, TLC

(***************************************************************************)
(* Bounds of the model.                                                     *)
(***************************************************************************)
\* number of remote calls that may be dispatched in one behaviour
MaxRequests == 2
\* number of file selections in one behaviour
MaxUploads == 2
\* number of candidates in a reply handed to the extractor
MaxCandidates == 2
\* number of content parts in one candidate
MaxParts == 2

(***************************************************************************)
(* String helpers: String.prototype.trim / split / includes.               *)
(***************************************************************************)
IsWhitespace(c) == c \in {" ", "\t", "\n"}

RECURSIVE TrimStart(_)
TrimStart(s) ==
    IF s = <<>> THEN <<>>
    ELSE IF IsWhitespace(Head(s)) THEN TrimStart(Tail(s)) ELSE s

RECURSIVE TrimEnd(_)
TrimEnd(s) ==
    IF s = <<>> THEN <<>>
    ELSE IF IsWhitespace(s[Len(s)]) THEN TrimEnd(SubSeq(s, 1, Len(s) - 1)) ELSE s

Trim(s) == TrimEnd(TrimStart(s))

\* s.split(sep) for a one-character separator: the list of pieces
RECURSIVE SplitFrom(_, _, _)
SplitFrom(s, sep, cur) ==
    IF s = <<>> THEN <<cur>>
    ELSE IF Head(s) = sep THEN <<cur>> \o SplitFrom(Tail(s), sep, <<>>)
    ELSE SplitFrom(Tail(s), sep, Append(cur, Head(s)))

Split(s, sep) == SplitFrom(s, sep, <<>>)

\* a JavaScript value that may be undefined
Undefined == [defined |-> FALSE, value |-> <<>>]
Defined(v) == [defined |-> TRUE, value |-> v]

\* list[i] with a zero-based index: undefined when out of range
At(list, i) == IF i + 1 \in 1..Len(list) THEN Defined(list[i + 1]) ELSE Undefined

\* t occurs in s at position i (one-based)
MatchesAt(s, t, i) == \A k \in 1..Len(t) : s[i + k - 1] = t[k]

\* variant: a match at the start only (startsWith)
Includes_Prefix(s, t) == Len(s) >= Len(t) /\ MatchesAt(s, t, 1)
\* s.includes(t): t occurs at some position of s
Includes(s, t) == \E i \in 1..(Len(s) - Len(t) + 1) : MatchesAt(s, t, i)

(***************************************************************************)
(* src/types.ts                                                            *)
(***************************************************************************)
AspectRatio == {"1:1", "9:16", "16:9"}
TEXT_TO_IMAGE == "TEXT_TO_IMAGE"
IMAGE_TO_IMAGE == "IMAGE_TO_IMAGE"
GenerationMode == {TEXT_TO_IMAGE, IMAGE_TO_IMAGE}

(***************************************************************************)
(* String literals of the source.                                          *)
(***************************************************************************)
ErrNoCandidates == <<"N", "o", " ", "c", "a", "n", "d", "i", "d", "a", "t", "e", "s", " ", "r", "e", "t", "u", "r", "n", "e", "d", " ", "f", "r", "o", "m", " ", "G", "e", "m", "i", "n", "i", ".">>
ErrNoImage == <<"N", "o", " ", "i", "m", "a", "g", "e", " ", "d", "a", "t", "a", " ", "f", "o", "u", "n", "d", " ", "i", "n", " ", "t", "h", "e", " ", "r", "e", "s", "p", "o", "n", "s", "e", ".">>
DataUrlHeader == <<"d", "a", "t", "a", ":", "i", "m", "a", "g", "e", "/", "p", "n", "g", ";", "b", "a", "s", "e", "6", "4", ",">>
SAFETY == <<"S", "A", "F", "E", "T", "Y">>

\* the user-facing messages (ASCII renderings of the localized literals)
NoError == "null"
MsgEmptyPrompt == "Vui long nhap mo ta."
MsgNoUpload == "Vui long tai anh len de bien doi."
MsgFileError == "Khong the xu ly anh. Vui long thu anh khac."
MsgGeneric == "Da xay ra loi. Vui long thu lai."
MsgSafety == "Mo ta bi he thong an toan chan. Vui long thu mo ta khac."
MsgLoading == "Dang tao tac pham..."

(***************************************************************************)
(* Inputs.                                                                  *)
(***************************************************************************)
\* values the prompt textarea may take
Prompts == { <<>>, <<" ">>, <<" ", "b", " ">> }

\* the aspect ratios the user picks among in the model
RatioChoices == {"1:1", "16:9"}

\* files the file-selection surface may supply: name, MIME type, and the
\* base64 encoding of the content as the FileReader produces it
ImageJpeg == <<"i", "m", "a", "g", "e", "/", "j", "p", "e", "g">>
Files == { [name |-> "f1", type |-> ImageJpeg, content |-> <<"Q", "U", "E", "=">>] }

\* content parts of a reply: a text part or a part carrying inline data
TextPart == [inlineData |-> Undefined]
InlinePart(d) == [inlineData |-> Defined(d)]
ReplyData == { <<"A", "A", "A", "A">>, <<"B", "w">> }
ReplyParts == {TextPart} \cup { InlinePart(d) : d \in ReplyData }

SeqsUpTo(S, n) == UNION { [1..k -> S] : k \in 0..n }

\* a candidate is its content.parts; a reply is its candidates (or none)
Candidates == SeqsUpTo(ReplyParts, MaxParts)
Replies == { [candidates |-> Undefined] }
             \cup { [candidates |-> Defined(cs)] : cs \in SeqsUpTo(Candidates, MaxCandidates) }

\* errors the remote call may throw: with or without a message
NoMessage == [message |-> Undefined]
ErrorWith(m) == [message |-> Defined(m)]
ThrownErrors == { NoMessage,
                  ErrorWith(<<>>),
                  ErrorWith(<<"b", "l", "o", "c", "k", "e", "d", ":", " ", "S", "A", "F", "E", "T", "Y", ".">>),
                  ErrorWith(<<"S", "a", "f", "e", "t", "y">>) }

(***************************************************************************)
(* src/services/geminiService.ts                                           *)
(***************************************************************************)
MODEL_NAME == "gemini-2.5-flash-image"

\* the result of a call: a returned string or a thrown error
Returned(v) == [threw |-> FALSE, value |-> v, error |-> NoMessage]
Thrown(e) == [threw |-> TRUE, value |-> <<>>, error |-> e]

\* the outcome of ai.models.generateContent: a reply or a thrown error
Replied(r) == [threw |-> FALSE, response |-> r, error |-> NoMessage]
Failed(e) == [threw |-> TRUE, response |-> [candidates |-> Undefined], error |-> e]

\* the outcomes the controller is driven with: every thrown error, and replies
\* of each shape the extractor distinguishes
TextOnly == << TextPart >>
TextThenImage == << TextPart, InlinePart(<<"A", "A", "A", "A">>) >>
TwoImages == << InlinePart(<<"A", "A", "A", "A">>), InlinePart(<<"B", "w">>) >>
SettledReplies == { [candidates |-> Defined(<<>>)],
                    [candidates |-> Defined(<< TextOnly, TwoImages >>)],
                    [candidates |-> Defined(<< TextThenImage >>)],
                    [candidates |-> Defined(<< TwoImages, TextOnly >>)] }
RemoteOutcomes == { Replied(r) : r \in SettledReplies } \cup { Failed(e) : e \in ThrownErrors }

\* the for loop over the parts: the first part whose inlineData is truthy
RECURSIVE ScanParts(_)
ScanParts(parts) ==
    IF parts = <<>> THEN Thrown(ErrorWith(ErrNoImage))
    ELSE IF Head(parts).inlineData.defined
         THEN Returned(DataUrlHeader \o Head(parts).inlineData.value)
         ELSE ScanParts(Tail(parts))

\* variant: the last candidate is scanned instead of the first
extractImageFromResponse_LastCandidate(response) ==
    IF ~response.candidates.defined \/ Len(response.candidates.value) = 0
    THEN Thrown(ErrorWith(ErrNoCandidates))
    ELSE ScanParts(response.candidates.value[Len(response.candidates.value)])

extractImageFromResponse(response) ==
    IF ~response.candidates.defined \/ Len(response.candidates.value) = 0
    THEN Thrown(ErrorWith(ErrNoCandidates))
    ELSE ScanParts(response.candidates.value[1])

\* the request generateImageFromText hands to generateContent
TextRequest(p, ratio) ==
    [ model |-> MODEL_NAME,
      parts |-> << [text |-> p] >>,
      aspectRatio |-> ratio ]

\* variant: the piece before the comma is taken
StripDataUrlPrefix_Index0(base64) == At(Split(base64, ","), 0)
\* sourceImage.base64.split(',')[1]
StripDataUrlPrefix(base64) == At(Split(base64, ","), 1)

\* the request generateImageFromImage hands to generateContent
ImageRequest(sourceImage, p, ratio) ==
    [ model |-> MODEL_NAME,
      parts |-> << [inlineData |-> [mimeType |-> sourceImage.mimeType,
                                    data |-> StripDataUrlPrefix(sourceImage.base64)]],
                   [text |-> p] >>,
      aspectRatio |-> ratio ]

\* what either generateImage function settles with once generateContent has:
\* the extractor's result, or the error rethrown from the catch block
ServiceResult(outcome) ==
    IF outcome.threw THEN Thrown(outcome.error)
    ELSE extractImageFromResponse(outcome.response)

\* FileReader.readAsDataURL: data:<type>;base64,<content>
fileToBase64(file) ==
    <<"d", "a", "t", "a", ":">> \o file.type
        \o <<";", "b", "a", "s", "e", "6", "4", ",">> \o file.content

(***************************************************************************)
(* State of the App component (src/App.tsx) and of its environment.        *)
(***************************************************************************)
VARIABLES
    mode,             \* useState: GenerationMode
    prompt,           \* useState: the prompt text
    aspectRatio,      \* useState: AspectRatio
    loading,          \* useState: LoadingState
    uploadedImage,    \* useState: UploadedImage | null
    generatedImages,  \* useState: the history, most recent first
    error,            \* useState: string | null
    fileInputValue,   \* value of the hidden file input (fileInputRef.current)
    pendingReads,     \* handleFileChange calls suspended in fileToBase64
    inflight,         \* handleGenerate calls suspended in the remote call
    liveUrls,         \* object URLs created and not yet revoked
    nextUrl,          \* the next object URL URL.createObjectURL returns
    dispatched,       \* number of remote calls issued so far
    uploads,          \* number of file selections so far
    succeeded,        \* the requests that succeeded, in order of resolution
    harnessReply,     \* extractor harness: the reply under test
    extracted         \* extractor harness: what the extractor did with it

vars == << mode, prompt, aspectRatio, loading, uploadedImage, generatedImages,
           error, fileInputValue, pendingReads, inflight, liveUrls, nextUrl,
           dispatched, uploads, succeeded, harnessReply, extracted >>

ctlVars == << mode, prompt, aspectRatio, loading, uploadedImage, generatedImages,
              error, fileInputValue, pendingReads, inflight, liveUrls, nextUrl,
              dispatched, uploads, succeeded >>

harnessVars == << harnessReply, extracted >>

NoUpload == [present |-> FALSE, file |-> "", previewUrl |-> 0,
             base64 |-> <<>>, mimeType |-> <<>>]

NotLoading == [isLoading |-> FALSE, message |-> ""]
NowLoading == [isLoading |-> TRUE, message |-> MsgLoading]

NotExtracted == [done |-> FALSE, result |-> Returned(<<>>)]

CtlInit ==
    /\ mode = TEXT_TO_IMAGE
    /\ prompt = <<>>
    /\ aspectRatio = "1:1"
    /\ loading = NotLoading
    /\ uploadedImage = NoUpload
    /\ generatedImages = <<>>
    /\ error = NoError
    /\ fileInputValue = ""
    /\ pendingReads = [f \in Files |-> 0]
    /\ inflight = {}
    /\ liveUrls = {}
    /\ nextUrl = 1
    /\ dispatched = 0
    /\ uploads = 0
    /\ succeeded = <<>>

Init ==
    /\ CtlInit
    /\ harnessReply = [candidates |-> Undefined]
    /\ extracted = NotExtracted

(***************************************************************************)
(* Handlers of the App component.                                          *)
(***************************************************************************)
\* variant: the mode is set and the error is left as it is
switchMode_KeepError(newMode) ==
    /\ mode' = newMode
    /\ fileInputValue' = IF newMode = mode THEN fileInputValue ELSE ""
    /\ UNCHANGED << prompt, aspectRatio, loading, uploadedImage, generatedImages,
                    error, pendingReads, inflight, liveUrls, nextUrl, dispatched,
                    uploads, succeeded >>

\* onClick of the two mode buttons
switchMode(newMode) ==
    /\ mode' = newMode
    /\ error' = NoError
    \* the file input is rendered in image-to-image mode only: a mode change
    \* unmounts or remounts it, and a fresh input has no value
    /\ fileInputValue' = IF newMode = mode THEN fileInputValue ELSE ""
    /\ UNCHANGED << prompt, aspectRatio, loading, uploadedImage, generatedImages,
                    pendingReads, inflight, liveUrls, nextUrl, dispatched,
                    uploads, succeeded >>

\* onChange of the prompt textarea
setPrompt(value) ==
    /\ prompt' = value
    /\ UNCHANGED << mode, aspectRatio, loading, uploadedImage, generatedImages,
                    error, fileInputValue, pendingReads, inflight, liveUrls,
                    nextUrl, dispatched, uploads, succeeded >>

\* onClick of the three aspect ratio buttons
setAspectRatio(ratio) ==
    /\ aspectRatio' = ratio
    /\ UNCHANGED << mode, prompt, loading, uploadedImage, generatedImages,
                    error, fileInputValue, pendingReads, inflight, liveUrls,
                    nextUrl, dispatched, uploads, succeeded >>

\* the upload area is rendered while the mode is image-to-image and no image
\* is uploaded; the remove button while an image is uploaded
UploadAreaShown == mode = IMAGE_TO_IMAGE /\ ~uploadedImage.present
RemoveButtonShown == mode = IMAGE_TO_IMAGE /\ uploadedImage.present

\* handleFileChange up to its await: the user picked a file, the read starts
handleFileChange(file) ==
    /\ UploadAreaShown
    /\ uploads < MaxUploads
    /\ uploads' = uploads + 1
    /\ fileInputValue' = file.name
    /\ pendingReads' = [pendingReads EXCEPT ![file] = @ + 1]
    /\ UNCHANGED << mode, prompt, aspectRatio, loading, uploadedImage,
                    generatedImages, error, inflight, liveUrls, nextUrl,
                    dispatched, succeeded >>

\* handleFileChange after its await, the read succeeded
FileReadDone(file) ==
    /\ pendingReads[file] > 0
    /\ pendingReads' = [pendingReads EXCEPT ![file] = @ - 1]
    /\ uploadedImage' = [ present |-> TRUE,
                          file |-> file.name,
                          previewUrl |-> nextUrl,
                          base64 |-> fileToBase64(file),
                          mimeType |-> file.type ]
    /\ liveUrls' = liveUrls \cup {nextUrl}
    /\ nextUrl' = nextUrl + 1
    /\ error' = NoError
    /\ UNCHANGED << mode, prompt, aspectRatio, loading, generatedImages,
                    fileInputValue, inflight, dispatched, uploads, succeeded >>

\* handleFileChange after its await, the read failed (reader.onerror)
FileReadFailed(file) ==
    /\ pendingReads[file] > 0
    /\ pendingReads' = [pendingReads EXCEPT ![file] = @ - 1]
    /\ error' = MsgFileError
    /\ UNCHANGED << mode, prompt, aspectRatio, loading, uploadedImage,
                    generatedImages, fileInputValue, inflight, liveUrls,
                    nextUrl, dispatched, uploads, succeeded >>

removeUploadedImage ==
    /\ RemoveButtonShown
    /\ liveUrls' = IF uploadedImage.present
                   THEN liveUrls \ {uploadedImage.previewUrl}
                   ELSE liveUrls
    /\ uploadedImage' = NoUpload
    /\ fileInputValue' = ""
    /\ UNCHANGED << mode, prompt, aspectRatio, loading, generatedImages, error,
                    pendingReads, inflight, nextUrl, dispatched, uploads,
                    succeeded >>

(***************************************************************************)
(* handleGenerate.                                                         *)
(***************************************************************************)
\* variant: the prompt is tested without trim()
PromptMissing_NoTrim(p) == p = <<>>
\* !prompt.trim()
PromptMissing(p) == Trim(p) = <<>>

\* mode === IMAGE_TO_IMAGE && !uploadedImage
UploadMissing(m, image) == m = IMAGE_TO_IMAGE /\ ~image.present

\* variant: the loading flag is not raised
StartLoading_Off == NotLoading
\* the loading state set before the remote call
StartLoading == NowLoading

\* variant: the loading flag is not cleared
FinishLoading_On == NowLoading
\* the loading state set in the finally block
FinishLoading == NotLoading

\* the request the service function selected by the mode issues
RequestFor(m, image, p, ratio) ==
    IF m = TEXT_TO_IMAGE THEN TextRequest(p, ratio)
    ELSE ImageRequest(image, p, ratio)

\* handleGenerate up to its await: validation, then the remote call is issued
\* with the mode, prompt, upload and aspect ratio of the current render
handleGenerate ==
    IF PromptMissing(prompt)
    THEN /\ error' = MsgEmptyPrompt
         /\ UNCHANGED << mode, prompt, aspectRatio, loading, uploadedImage,
                         generatedImages, fileInputValue, pendingReads, inflight,
                         liveUrls, nextUrl, dispatched, uploads, succeeded >>
    ELSE IF UploadMissing(mode, uploadedImage)
    THEN /\ error' = MsgNoUpload
         /\ UNCHANGED << mode, prompt, aspectRatio, loading, uploadedImage,
                         generatedImages, fileInputValue, pendingReads, inflight,
                         liveUrls, nextUrl, dispatched, uploads, succeeded >>
    ELSE /\ dispatched < MaxRequests
         /\ dispatched' = dispatched + 1
         /\ loading' = StartLoading
         /\ error' = NoError
         /\ inflight' = inflight \cup
                {[ id |-> dispatched + 1,
                   request |-> RequestFor(mode, uploadedImage, prompt, aspectRatio),
                   mode |-> mode,
                   prompt |-> prompt,
                   aspectRatio |-> aspectRatio,
                   uploadedImage |-> uploadedImage ]}
         /\ UNCHANGED << mode, prompt, aspectRatio, uploadedImage,
                         generatedImages, fileInputValue, pendingReads, liveUrls,
                         nextUrl, uploads, succeeded >>

\* err.message && err.message.includes("SAFETY")
ErrorMessageFor(err) ==
    IF err.message.defined /\ err.message.value # <<>>
       /\ Includes(err.message.value, SAFETY)
    THEN MsgSafety
    ELSE MsgGeneric

\* variants: the image is appended; the previous history is dropped
HistoryUpdate_Append(newImage, prev) == prev \o <<newImage>>
HistoryUpdate_Replace(newImage, prev) == <<newImage>>
\* setGeneratedImages(prev => [newImage, ...prev])
HistoryUpdate(newImage, prev) == <<newImage>> \o prev

\* variant: the image is recorded whether or not the call threw
HistoryAfter_Always(result, newImage, prev) == HistoryUpdate(newImage, prev)
\* the try / catch around the awaited call: the history after it settles
HistoryAfter(result, newImage, prev) ==
    IF result.threw THEN prev ELSE HistoryUpdate(newImage, prev)

\* variant: the image takes the prompt and aspect ratio of the latest render
NewImage_LatestState(req, imageUrl) ==
    [ id |-> Len(succeeded) + 1,
      url |-> imageUrl,
      prompt |-> prompt,
      aspectRatio |-> aspectRatio ]

\* the GeneratedImage built from the call's closure; crypto.randomUUID() is
\* modelled by the ordinal of the image's creation (timestamp is never read)
NewImage(req, imageUrl) ==
    [ id |-> Len(succeeded) + 1,
      url |-> imageUrl,
      prompt |-> req.prompt,
      aspectRatio |-> req.aspectRatio ]

\* handleGenerate after its await: the remote call of req settled with outcome
RemoteSettled(req, outcome) ==
    LET result == ServiceResult(outcome)
        newImage == NewImage(req, result.value)
    IN  /\ req \in inflight
        /\ inflight' = inflight \ {req}
        /\ generatedImages' = HistoryAfter(result, newImage, generatedImages)
        /\ succeeded' = IF result.threw THEN succeeded
                        ELSE Append(succeeded, [request |-> req.id, image |-> newImage.id])
        /\ error' = IF result.threw THEN ErrorMessageFor(result.error) ELSE error
        /\ loading' = FinishLoading
        /\ UNCHANGED << mode, prompt, aspectRatio, uploadedImage, fileInputValue,
                        pendingReads, liveUrls, nextUrl, dispatched, uploads >>

\* the generate Button: disabled while loading.isLoading
GenerateButtonEnabled == ~loading.isLoading

ClickGenerate == GenerateButtonEnabled /\ handleGenerate

\* handleGenerate invoked while a request is in flight, past the Button
DirectGenerate == loading.isLoading /\ handleGenerate

(***************************************************************************)
(* Specifications.                                                         *)
(***************************************************************************)
UserEdits ==
    \/ \E m \in GenerationMode : switchMode(m)
    \/ \E p \in Prompts : setPrompt(p)
    \/ \E r \in RatioChoices : setAspectRatio(r)

UploadSteps ==
    \/ \E f \in Files : handleFileChange(f)
    \/ \E f \in Files : FileReadDone(f)
    \/ \E f \in Files : FileReadFailed(f)
    \/ removeUploadedImage

Settle == \E req \in inflight : \E o \in RemoteOutcomes : RemoteSettled(req, o)

\* the application driven through its rendered surface
Next ==
    \/ (UserEdits /\ UNCHANGED harnessVars)
    \/ (UploadSteps /\ UNCHANGED harnessVars)
    \/ (ClickGenerate /\ UNCHANGED harnessVars)
    \/ (Settle /\ UNCHANGED harnessVars)

Spec == Init /\ [][Next]_vars

\* a caller that also invokes handleGenerate while a request is in flight;
\* no file is selected in these behaviours
NextDirect ==
    \/ (UserEdits /\ UNCHANGED harnessVars)
    \/ (ClickGenerate /\ UNCHANGED harnessVars)
    \/ (DirectGenerate /\ UNCHANGED harnessVars)
    \/ (Settle /\ UNCHANGED harnessVars)

SpecDirect == Init /\ [][NextDirect]_vars

\* the extractor applied to one reply drawn from the bounded set of replies
ExtractInit ==
    /\ CtlInit
    /\ harnessReply \in Replies
    /\ extracted = NotExtracted

Extract ==
    /\ ~extracted.done
    /\ extracted' = [done |-> TRUE, result |-> extractImageFromResponse(harnessReply)]
    /\ UNCHANGED harnessReply
    /\ UNCHANGED ctlVars

SpecExtract == ExtractInit /\ [][Extract]_vars

(***************************************************************************)
(* Vocabulary of the properties, stated without the operators of the model. *)
(***************************************************************************)
\* the prompt is empty or consists of whitespace only
BlankPrompt == \A i \in DOMAIN prompt : prompt[i] \in {" ", "\t", "\n"}

\* the precondition of a submission is violated in the current state
PreconditionViolated ==
    BlankPrompt \/ (mode = IMAGE_TO_IMAGE /\ ~uploadedImage.present)

\* the reply carries inline data in a part of its first candidate
HasImage(r) ==
    /\ r.candidates.defined
    /\ r.candidates.value # <<>>
    /\ \E i \in DOMAIN r.candidates.value[1] :
            r.candidates.value[1][i].inlineData.defined

\* the outcome of a remote call makes the request fail
OutcomeFails(o) == o.threw \/ ~HasImage(o.response)

FailingOutcomes == { o \in RemoteOutcomes : OutcomeFails(o) }
SucceedingOutcomes == RemoteOutcomes \ FailingOutcomes

\* the error text of a failing outcome; none when the thrown value has no message
FailureText(o) ==
    IF o.threw THEN o.error.message
    ELSE IF o.response.candidates.defined /\ o.response.candidates.value # <<>>
         THEN Defined(ErrNoImage)
         ELSE Defined(ErrNoCandidates)

\* the text contains the substring SAFETY
ContainsSAFETY(text) ==
    \E i \in 1..Len(text) :
        /\ i + 5 <= Len(text)
        /\ text[i] = "S" /\ text[i + 1] = "A" /\ text[i + 2] = "F"
        /\ text[i + 3] = "E" /\ text[i + 4] = "T" /\ text[i + 5] = "Y"

(***************************************************************************)
(* C1: a submission whose precondition is violated (blank prompt, or        *)
(* image-to-image mode without an uploaded image) dispatches no remote call *)
(* and sets a validation message.                                           *)
(***************************************************************************)
C1_RejectedSubmission ==
    [][ (ClickGenerate /\ PreconditionViolated)
            => /\ dispatched' = dispatched
               /\ inflight' = inflight
               /\ loading' = loading
               /\ error' = IF BlankPrompt THEN MsgEmptyPrompt ELSE MsgNoUpload ]_vars

\* a whitespace-only prompt was submitted and rejected
C1_Witness ==
    /\ prompt = <<" ">>
    /\ error = MsgEmptyPrompt
    /\ dispatched = 0

(***************************************************************************)
(* C2: driven through the generate Button, at most one remote call is       *)
(* outstanding, and loading.isLoading is true while one is.                 *)
(***************************************************************************)
C2_AtMostOneInFlight ==
    /\ Cardinality(inflight) <= 1
    /\ (inflight # {} => loading.isLoading)

\* a second request is in flight after the first one has settled
C2_Witness ==
    /\ dispatched = 2
    /\ Cardinality(inflight) = 1

(***************************************************************************)
(* C3: a non-empty history starts with the image of the most recently       *)
(* succeeded generation; a change of the history prepends exactly one image *)
(* and keeps the older entries in order behind it.                          *)
(***************************************************************************)
C3_NewestFirst ==
    /\ [](generatedImages # <<>>
            => /\ succeeded # <<>>
               /\ generatedImages[1].id = succeeded[Len(succeeded)].image)
    /\ [][ generatedImages' # generatedImages
            => /\ Len(generatedImages') = Len(generatedImages) + 1
               /\ \A i \in DOMAIN generatedImages :
                      generatedImages'[i + 1] = generatedImages[i] ]_vars

\* two generations succeeded, the second one's image is first
C3_Witness ==
    /\ Len(generatedImages) = 2
    /\ generatedImages[1].id = 2
    /\ generatedImages[2].id = 1

(***************************************************************************)
(* C4: the only object URL created and not yet revoked is the preview of    *)
(* the current uploadedImage (none when it is null).                        *)
(***************************************************************************)
C4_OnlyCurrentPreviewLive ==
    liveUrls = IF uploadedImage.present THEN {uploadedImage.previewUrl} ELSE {}

(***************************************************************************)
(* C5: when the remote call of a request settles, loading is cleared and no *)
(* remote call is issued again; if it failed (thrown error, no candidate,   *)
(* no inline image) the failure ends as one of the two user-facing strings. *)
(***************************************************************************)
C5_FailuresCaught ==
    [][ \A req \in inflight \ inflight' :
            /\ ~loading'.isLoading
            /\ dispatched' = dispatched
            /\ inflight' = inflight \ {req}
            /\ \A o \in FailingOutcomes :
                    RemoteSettled(req, o) => error' \in {MsgGeneric, MsgSafety} ]_vars

\* a request failed and the controller is idle again
C5_Witness ==
    /\ dispatched = 1
    /\ inflight = {}
    /\ error = MsgGeneric
    /\ ~loading.isLoading
    /\ generatedImages = <<>>

(***************************************************************************)
(* C6: the history has one entry per succeeded request; it changes only     *)
(* when a remote call settles with an image, by one entry added in front of *)
(* the unchanged older ones, and a failed request leaves it as it was.      *)
(***************************************************************************)
C6_HistoryOnlyGrowsOnSuccess ==
    /\ [](Len(generatedImages) = Len(succeeded))
    /\ [][ /\ generatedImages' # generatedImages
                => /\ \E req \in inflight : \E o \in SucceedingOutcomes :
                          RemoteSettled(req, o)
                   /\ SubSeq(generatedImages', 2, Len(generatedImages')) = generatedImages
           /\ \A req \in inflight \ inflight' : \A o \in FailingOutcomes :
                RemoteSettled(req, o) => generatedImages' = generatedImages ]_vars

\* after one success, a second request failed: the history still has one entry
C6_Witness ==
    /\ Len(generatedImages) = 1
    /\ dispatched = 2
    /\ inflight = {}
    /\ error \in {MsgGeneric, MsgSafety}

(***************************************************************************)
(* C7: the extractor fails with the no-candidate error on a reply without   *)
(* candidates, with the no-image error when the first candidate has no part *)
(* with inline data, and otherwise returns the data-URL header followed by  *)
(* the data of the first such part of the first candidate.                  *)
(***************************************************************************)
C7_ExtractorContract ==
    extracted.done =>
        LET r == harnessReply
            res == extracted.result
        IN  IF ~r.candidates.defined \/ r.candidates.value = <<>>
            THEN res.threw /\ res.error = ErrorWith(ErrNoCandidates)
            ELSE LET ps == r.candidates.value[1]
                     withData == { i \in DOMAIN ps : ps[i].inlineData.defined }
                 IN  IF withData = {}
                     THEN res.threw /\ res.error = ErrorWith(ErrNoImage)
                     ELSE LET first == CHOOSE i \in withData :
                                            \A j \in withData : i <= j
                          IN  /\ ~res.threw
                              /\ res.value = DataUrlHeader \o ps[first].inlineData.value

\* the first candidate has a text part, then an image; a later candidate has
\* another image: the first candidate's image is returned
C7_Witness ==
    /\ extracted.done
    /\ harnessReply.candidates.defined
    /\ harnessReply.candidates.value =
            << << TextPart, InlinePart(<<"A", "A", "A", "A">>) >>,
               << InlinePart(<<"B", "w">>) >> >>
    /\ extracted.result = Returned(DataUrlHeader \o <<"A", "A", "A", "A">>)

(***************************************************************************)
(* C8: the request of a dispatched call is built from the mode, prompt,     *)
(* upload and aspect ratio at submission: one text part in text-to-image    *)
(* mode; in image-to-image mode an inline-data part with the upload's MIME  *)
(* type and its base64 string after the data-URL prefix, then the text part.*)
(***************************************************************************)
\* data is what follows the first comma of the data URL
AfterPrefix(dataUrl, data) ==
    \E k \in DOMAIN dataUrl :
        /\ dataUrl[k] = ","
        /\ \A j \in 1..(k - 1) : dataUrl[j] # ","
        /\ data = [i \in 1..(Len(dataUrl) - k) |-> dataUrl[k + i]]

C8_PayloadByMode ==
    [][ dispatched' # dispatched
            => \E r \in inflight' \ inflight :
                /\ inflight' = inflight \cup {r}
                /\ r.request.aspectRatio = aspectRatio
                /\ IF mode = TEXT_TO_IMAGE
                   THEN r.request.parts = << [text |-> prompt] >>
                   ELSE /\ Len(r.request.parts) = 2
                        /\ r.request.parts[2] = [text |-> prompt]
                        /\ DOMAIN r.request.parts[1] = {"inlineData"}
                        /\ r.request.parts[1].inlineData.mimeType = uploadedImage.mimeType
                        /\ r.request.parts[1].inlineData.data.defined
                        /\ AfterPrefix(uploadedImage.base64,
                                       r.request.parts[1].inlineData.data.value) ]_vars

\* an image-to-image request is in flight
C8_Witness ==
    \E r \in inflight :
        /\ r.mode = IMAGE_TO_IMAGE
        /\ Len(r.request.parts) = 2
        /\ r.request.parts[1].inlineData.data = Defined(<<"Q", "U", "E", "=">>)

(***************************************************************************)
(* C9: when a dispatched request fails, the error shown is the safety       *)
(* message exactly when the failure's error text contains SAFETY, and the   *)
(* generic message otherwise; loading is cleared and the error is set.      *)
(***************************************************************************)
C9_SafetyMessage ==
    [][ \A req \in inflight \ inflight' : \A o \in FailingOutcomes :
            RemoteSettled(req, o)
                => /\ error' = IF /\ FailureText(o).defined
                                  /\ ContainsSAFETY(FailureText(o).value)
                               THEN MsgSafety
                               ELSE MsgGeneric
                   /\ error' # NoError
                   /\ ~loading'.isLoading ]_vars

\* a request failed with a safety rejection
C9_Witness ==
    /\ error = MsgSafety
    /\ ~loading.isLoading
    /\ inflight = {}
    /\ dispatched = 1

(***************************************************************************)
(* C10: with handleGenerate also invoked while a request is in flight, the  *)
(* images of the succeeded requests are all in the history, each once, in   *)
(* reverse order of resolution, whatever the order of submission.           *)
(***************************************************************************)
C10_NoLostUpdate ==
    /\ Len(generatedImages) = Len(succeeded)
    /\ \A i \in DOMAIN succeeded :
            generatedImages[Len(succeeded) - i + 1].id = succeeded[i].image
    /\ \A i, j \in DOMAIN succeeded :
            i # j => /\ succeeded[i].request # succeeded[j].request
                     /\ succeeded[i].image # succeeded[j].image

\* the request submitted second resolved first; both images are in the history
C10_Witness ==
    /\ Len(succeeded) = 2
    /\ succeeded[1].request = 2
    /\ succeeded[2].request = 1
    /\ Len(generatedImages) = 2
    /\ generatedImages[1].id = succeeded[2].image
    /\ generatedImages[2].id = succeeded[1].image

(***************************************************************************)
(* C11: switchMode sets the mode and clears the error, and leaves prompt,   *)
(* aspect ratio, uploaded image, loading state and history unchanged; a     *)
(* prompt edit changes the prompt only and does not clear the error.        *)
(***************************************************************************)
C11_SwitchModeFrame ==
    [][ /\ \A m \in GenerationMode :
              switchMode(m)
                  => /\ mode' = m
                     /\ error' = NoError
                     /\ prompt' = prompt
                     /\ aspectRatio' = aspectRatio
                     /\ uploadedImage' = uploadedImage
                     /\ liveUrls' = liveUrls
                     /\ loading' = loading
                     /\ generatedImages' = generatedImages
        /\ \A p \in Prompts :
              setPrompt(p)
                  => /\ prompt' = p
                     /\ error' = error
                     /\ mode' = mode
                     /\ aspectRatio' = aspectRatio
                     /\ uploadedImage' = uploadedImage
                     /\ loading' = loading
                     /\ generatedImages' = generatedImages ]_vars

\* the only request failed, which set an error; no file was ever selected and
\* no second request was submitted, so the error was cleared by a mode switch
C11_Witness ==
    /\ dispatched = 1
    /\ inflight = {}
    /\ generatedImages = <<>>
    /\ uploads = 0
    /\ mode = IMAGE_TO_IMAGE
    /\ error = NoError
    /\ prompt = <<" ", "b", " ">>

(***************************************************************************)
(* C12: the image recorded when a request succeeds carries the prompt and   *)
(* the aspect ratio that were sent in that request's payload, whatever the  *)
(* prompt, aspect ratio, mode and upload are when the call settles.         *)
(***************************************************************************)
\* the text of the payload's text part (its last part in both modes)
SentPrompt(request) == request.parts[Len(request.parts)].text

C12_ImageKeepsSubmittedValues ==
    [][ \A req \in inflight \ inflight' :
            generatedImages' # generatedImages
                => /\ generatedImages'[1].prompt = SentPrompt(req.request)
                   /\ generatedImages'[1].aspectRatio = req.request.aspectRatio ]_vars

\* the image of the only request, a text-to-image one (no file was ever
\* selected), differs from the current prompt and aspect ratio, and the mode
\* has been switched: the state a success reaches after edits made in flight
C12_Witness ==
    /\ dispatched = 1
    /\ uploads = 0
    /\ Len(generatedImages) = 1
    /\ generatedImages[1].prompt = <<" ", "b", " ">>
    /\ generatedImages[1].aspectRatio = "1:1"
    /\ prompt = <<>>
    /\ aspectRatio = "16:9"
    /\ mode = IMAGE_TO_IMAGE

====
